---------------------------- MODULE Spec2Model ----------------------------
(***************************************************************************)
(* A model of the TreasureHuntForm component (src/unnamed/part_000).       *)
(*                                                                         *)
(* The component is a React function component.  Its state is the twelve   *)
(* useState cells of lines 54-65; its operations are the event handlers    *)
(* (change of N, M, P, change of a matrix cell, blur, the Solve and        *)
(* SEARCH buttons, change of the search id) and the continuations of the   *)
(* two fetch calls.  An event handler runs to completion, React commits    *)
(* the batched state updates, and the effects of the commit (the matrix    *)
(* resize effect of lines 72-93) run before the next event is handled:     *)
(* one action of the model is one handler together with the effect its     *)
(* commit triggers.  An async handler is one action per segment between    *)
(* its awaits: up to the fetch; from the fetch resolving to the await of   *)
(* response.json(); and from there (or from the fetch rejecting) to its    *)
(* end.  The await of response.text() at line 227 is on a promise that is  *)
(* already rejected and is resumed before any other event is handled.      *)
(*                                                                         *)
(* Field and cell values are JavaScript strings, modelled as sequences of  *)
(* one-character strings so that the regular expressions, startsWith,      *)
(* replace and parseInt of the source are computed character by character. *)
(* A character that a TLA+ string cannot hold is written as its JavaScript *)
(* escape (the one-character string \u00a0 is the element "\\u00a0").      *)
(* Messages that the code only stores and displays are TLA+ strings.       *)
(***************************************************************************)
EXTENDS Integers, Sequences, FiniteSets, TLC

VARIABLES
    n, m, p,            \* useState<string>, lines 54-56
    matrix,             \* useState<string[][]>, line 57
    result,             \* useState<TreasureHuntOutput | null>, line 58
    error,              \* useState<string | null>, line 59
    loading,            \* useState<boolean>, line 60
    validationErrors,   \* useState<ValidationErrors>, line 61
    searchId,           \* useState<string>, line 62
    searchResult,       \* useState<TreasureResultDto | null>, line 63
    searchError,        \* useState<string | null>, line 64
    searching,          \* useState<boolean>, line 65
    solveRequests,      \* POST requests issued by fetch (line 210), not yet answered
    solveReading,       \* responses whose body handleSubmit is reading (lines 224, 233)
    searchRequests,     \* GET requests issued by fetch (line 258), not yet answered
    searchReading,      \* responses whose body handleSearch is reading (lines 268, 278)
    event               \* the name of the handler that ran last

vars == <<n, m, p, matrix, result, error, loading, validationErrors,
          searchId, searchResult, searchError, searching,
          solveRequests, solveReading, searchRequests, searchReading, event>>

formVars == <<n, m, p, matrix, validationErrors>>
solveVars == <<result, error, loading, solveRequests, solveReading>>
searchVars == <<searchId, searchResult, searchError, searching, searchRequests,
                searchReading>>

---------------------------------------------------------------------------
(* Bounds of the model.                                                    *)

\* The matrix buffer holds at most MaxCells cells: a change of N or M that
\* would ask for more rows, more columns or more cells is not offered.
MaxCells == 2

\* At most MaxInFlight requests of one flow are in flight.
MaxInFlight == 2

---------------------------------------------------------------------------
(* JavaScript strings and numbers.                                         *)

Digits == <<"0", "1", "2", "3", "4", "5", "6", "7", "8", "9">>

DigitChars == {Digits[i] : i \in 1..10}

NonZeroDigitChars == DigitChars \ {"0"}

\* The characters parseInt skips before the number (StrWhiteSpaceChar:
\* WhiteSpace and LineTerminator of ECMAScript).  A code unit that a TLA+
\* string cannot hold is written as its JavaScript escape.
WhiteSpace ==
    {" ", "\t", "\n", "\f", "\r", "\\u000b", "\\u00a0", "\\u1680",
     "\\u2000", "\\u2001", "\\u2002", "\\u2003", "\\u2004", "\\u2005",
     "\\u2006", "\\u2007", "\\u2008", "\\u2009", "\\u200a",
     "\\u2028", "\\u2029", "\\u202f", "\\u205f", "\\u3000", "\\ufeff"}

Empty == <<>>

DigitVal(c) == (CHOOSE i \in 1..10 : Digits[i] = c) - 1

Min(a, b) == IF a <= b THEN a ELSE b

\* /^[1-9]\d*$/
IsPositiveIntString(s) ==
    /\ Len(s) >= 1
    /\ s[1] \in NonZeroDigitChars
    /\ \A i \in 1..Len(s) : s[i] \in DigitChars

\* /^\d*$/
IsDigitString(s) == \A i \in 1..Len(s) : s[i] \in DigitChars

\* value.replace(/^0+/, '')
RECURSIVE StripLeadingZeros(_)
StripLeadingZeros(s) ==
    IF s # Empty /\ Head(s) = "0" THEN StripLeadingZeros(Tail(s)) ELSE s

\* A JavaScript number as this component meets it: NaN or an integer.
NaN == [nan |-> TRUE, val |-> 0]

Num(k) == [nan |-> FALSE, val |-> k]

isNaN(x) == x.nan

\* x > k, x <= k, x < k on numbers: every comparison with NaN is false.
Gt(x, k) == ~x.nan /\ x.val > k

Le(x, k) == ~x.nan /\ x.val <= k

Lt(x, k) == ~x.nan /\ x.val < k

RECURSIVE SkipWhiteSpace(_)
SkipWhiteSpace(s) ==
    IF s # Empty /\ Head(s) \in WhiteSpace THEN SkipWhiteSpace(Tail(s)) ELSE s

\* The value of the longest prefix of digits of s, read after acc.
RECURSIVE DigitsValue(_, _)
DigitsValue(s, acc) ==
    IF s # Empty /\ Head(s) \in DigitChars
    THEN DigitsValue(Tail(s), 10 * acc + DigitVal(Head(s)))
    ELSE acc

\* parseInt(s, 10): leading white space is skipped, a sign is read, then
\* the longest prefix of digits; NaN when there is no digit.
parseInt(s) ==
    LET t == SkipWhiteSpace(s)
        neg == t # Empty /\ Head(t) = "-"
        u == IF t # Empty /\ Head(t) \in {"-", "+"} THEN Tail(t) ELSE t
    IN  IF u = Empty \/ Head(u) \notin DigitChars
        THEN NaN
        ELSE Num(IF neg THEN 0 - DigitsValue(u, 0) ELSE DigitsValue(u, 0))

\* String(k) for k >= 0, as a TLA+ string (used inside messages).
RECURSIVE NumStr(_)
NumStr(k) ==
    IF k < 10 THEN Digits[k + 1] ELSE NumStr(k \div 10) \o Digits[(k % 10) + 1]

\* The values derived on every render, lines 67-69.
numN == parseInt(n)

numM == parseInt(m)

numP == parseInt(p)

---------------------------------------------------------------------------
(* The validation error map (ValidationErrors, lines 31-36): a function    *)
(* whose domain is the set of keys present.  The value at "matrix" is the  *)
(* map of cell errors, a function from <<row, col>> (the key `row-col`,    *)
(* indices from 0) to the message.                                         *)

NoErrors == <<>>

Has(f, k) == k \in DOMAIN f

Without(f, k) == [x \in (DOMAIN f) \ {k} |-> f[x]]

With(f, k, v) == [x \in (DOMAIN f) \cup {k} |-> IF x = k THEN v ELSE f[x]]

\* validationErrors.matrix is truthy: the key is present (an object, even
\* an empty one, is truthy).
HasMatrixErrors(ve) == Has(ve, "matrix")

CellKeys(ve) == IF Has(ve, "matrix") THEN DOMAIN ve["matrix"] ELSE {}


---------------------------------------------------------------------------
(* The matrix resize effect, lines 72-93.                                  *)

ValidDim(x) == ~isNaN(x) /\ Gt(x, 0)

\* ResizedMatrix with the loop of lines 77-83 left out: a grid of ''.
ResizedMatrix_Blank(prevMatrix, rows, cols) ==
    [i \in 1..rows |-> [j \in 1..cols |-> Empty]]

\* The updater of line 74: a numN x numM grid of '' that keeps prevMatrix's
\* value at every index inside both grids.
ResizedMatrix(prevMatrix, rows, cols) ==
    [i \in 1..rows |->
        [j \in 1..cols |->
            IF /\ i <= Min(rows, Len(prevMatrix))
               /\ j <= Min(cols, Len(prevMatrix[i]))
            THEN prevMatrix[i][j]
            ELSE Empty]]

\* EffectMatrix without the setMatrix([]) of line 91.
EffectMatrix_Keep(prevMatrix, newN, newM) ==
    IF ValidDim(parseInt(newN)) /\ ValidDim(parseInt(newM))
    THEN ResizedMatrix(prevMatrix, parseInt(newN).val, parseInt(newM).val)
    ELSE prevMatrix

\* The matrix after the effect has run for the field values newN, newM.
EffectMatrix(prevMatrix, newN, newM) ==
    IF ValidDim(parseInt(newN)) /\ ValidDim(parseInt(newM))
    THEN ResizedMatrix(prevMatrix, parseInt(newN).val, parseInt(newM).val)
    ELSE <<>>

\* The validation errors after the effect has run (lines 86-89): the cell
\* errors are emptied only in the branch that resizes.
EffectErrors(ve, newN, newM) ==
    IF /\ ValidDim(parseInt(newN)) /\ ValidDim(parseInt(newM))
       /\ HasMatrixErrors(ve)
    THEN With(ve, "matrix", <<>>)
    ELSE ve

\* EffectRuns with the dependency list [n]: a change of m runs no effect.
EffectRuns_OnlyN(oldN, oldM, newN, newM) == oldN # newN

\* The effect depends on [n, m] (line 93): it runs after a commit in which
\* n or m differs from the previous render.
EffectRuns(oldN, oldM, newN, newM) == <<oldN, oldM>> # <<newN, newM>>

---------------------------------------------------------------------------
(* handleNumericInputChange, lines 95-119, as N, M and P use it            *)
(* (allowZero is false, field is 'n', 'm' or 'p').                         *)

\* The value is stored as typed: line 103.
Accepted(value) == value = Empty \/ IsPositiveIntString(value)

\* Line 115: the branch that strips leading zeros.  (The branch of line 112
\* asks for a field other than 'n', 'm', 'p' and is never taken.)
ZeroLeading(value) == Len(value) > 1 /\ value[1] = "0"

\* NumericInputValue without the branch of lines 115-117.
NumericInputValue_NoStrip(old, value) == IF Accepted(value) THEN value ELSE old

\* The field's string after the handler.
NumericInputValue(old, value) ==
    IF Accepted(value) THEN value
    ELSE IF ZeroLeading(value) THEN StripLeadingZeros(value)
    ELSE old

\* The validation errors after the handler (lines 105-111).
NumericInputErrors(ve, field, value) ==
    IF Accepted(value) /\ Has(ve, field) THEN Without(ve, field) ELSE ve

\* The model's bound on the grid the effect would build (no grid is built
\* while N or M is not valid).
WithinBounds(newN, newM) ==
    LET r == parseInt(newN)
        c == parseInt(newM)
    IN  (ValidDim(r) /\ ValidDim(c)) => r.val * c.val <= MaxCells

\* The commit of a change of N or M, with the effect it triggers.
CommitDims(newN, newM, ve1) ==
    /\ WithinBounds(newN, newM)
    /\ n' = newN
    /\ m' = newM
    /\ IF EffectRuns(n, m, newN, newM)
       THEN /\ matrix' = EffectMatrix(matrix, newN, newM)
            /\ validationErrors' = EffectErrors(ve1, newN, newM)
       ELSE /\ matrix' = matrix
            /\ validationErrors' = ve1

ChangeN(value) ==
    /\ CommitDims(NumericInputValue(n, value), m,
                  NumericInputErrors(validationErrors, "n", value))
    /\ event' = "changeN"
    /\ UNCHANGED <<p, solveVars, searchVars>>

ChangeM(value) ==
    /\ CommitDims(n, NumericInputValue(m, value),
                  NumericInputErrors(validationErrors, "m", value))
    /\ event' = "changeM"
    /\ UNCHANGED <<p, solveVars, searchVars>>

ChangeP(value) ==
    /\ p' = NumericInputValue(p, value)
    /\ validationErrors' = NumericInputErrors(validationErrors, "p", value)
    /\ event' = "changeP"
    /\ UNCHANGED <<n, m, matrix, solveVars, searchVars>>

---------------------------------------------------------------------------
(* handleMatrixCellChange, lines 121-139.  The handler is bound to the     *)
(* cells renderMatrixInputs draws (lines 329-369): the cells of the matrix *)
(* buffer, drawn only when N and M are valid.  row and col count from 0.   *)

CellDrawn(row, col) ==
    /\ ValidDim(numN) /\ ValidDim(numM)
    /\ row + 1 \in 1..Len(matrix)
    /\ col + 1 \in 1..Len(matrix[row + 1])

CellAccepted(value) == value = Empty \/ IsDigitString(value)

CellChangeMatrix(mat, row, col, value) ==
    IF CellAccepted(value)
    THEN [mat EXCEPT ![row + 1][col + 1] = value]
    ELSE mat

\* CellChangeErrors dropping every cell error, not the one of the cell.
CellChangeErrors_ClearAll(ve, row, col, value) ==
    IF CellAccepted(value) /\ HasMatrixErrors(ve)
    THEN Without(ve, "matrix")
    ELSE ve

\* Lines 130-137.  A map left without a key is stored as matrix: undefined,
\* which every reader treats as the key being absent.
CellChangeErrors(ve, row, col, value) ==
    IF /\ CellAccepted(value)
       /\ HasMatrixErrors(ve)
       /\ <<row, col>> \in DOMAIN ve["matrix"]
    THEN LET rest == Without(ve["matrix"], <<row, col>>)
         IN  IF DOMAIN rest # {}
             THEN With(ve, "matrix", rest)
             ELSE Without(ve, "matrix")
    ELSE ve

ChangeCell(row, col, value) ==
    /\ CellDrawn(row, col)
    /\ matrix' = CellChangeMatrix(matrix, row, col, value)
    /\ validationErrors' = CellChangeErrors(validationErrors, row, col, value)
    /\ event' = "changeCell"
    /\ UNCHANGED <<n, m, p, solveVars, searchVars>>

---------------------------------------------------------------------------
(* validateForm, lines 142-184, as a function of the state it reads.       *)

RequiredMsg == "Required"

RangeMsg(maxP) == "Must be between 1 and " \o NumStr(maxP)

\* !x || num <= 0
ScalarInvalid(x) == x = Empty \/ Le(parseInt(x), 0)

\* matrix[i]?.[j]: undefined outside the buffer.
CellDefined(mat, i, j) == i + 1 \in 1..Len(mat) /\ j + 1 \in 1..Len(mat[i + 1])

\* CellRequired without the test cellValue === '': an empty cell passes.
CellRequired_NoEmpty(mat, i, j) == ~CellDefined(mat, i, j)

CellRequired(mat, i, j) ==
    \/ ~CellDefined(mat, i, j)
    \/ mat[i + 1][j + 1] = Empty
    \/ isNaN(parseInt(mat[i + 1][j + 1]))

\* CellOutOfRange without the test cellNum > numP.
CellOutOfRange_NoUpper(mat, i, j, vp) ==
    /\ mat[i + 1][j + 1] # Empty
    /\ ~isNaN(parseInt(vp)) /\ Gt(parseInt(vp), 0)
    /\ Lt(parseInt(mat[i + 1][j + 1]), 1)

CellOutOfRange(mat, i, j, vp) ==
    /\ ~CellRequired(mat, i, j)
    /\ ~isNaN(parseInt(vp)) /\ Gt(parseInt(vp), 0)
    /\ \/ Lt(parseInt(mat[i + 1][j + 1]), 1)
       \/ Gt(parseInt(mat[i + 1][j + 1]), parseInt(vp).val)

\* The indices the loops of lines 162-163 visit.
LoopCells(vn, vm) ==
    IF Gt(parseInt(vn), 0) /\ Gt(parseInt(vm), 0)
    THEN (0..(parseInt(vn).val - 1)) \X (0..(parseInt(vm).val - 1))
    ELSE {}

\* matrixErrors, line 159-175.
MatrixErrors(vn, vm, vp, mat) ==
    LET bad == {k \in LoopCells(vn, vm) :
                   CellRequired(mat, k[1], k[2]) \/ CellOutOfRange(mat, k[1], k[2], vp)}
    IN  [k \in bad |->
            IF CellRequired(mat, k[1], k[2])
            THEN RequiredMsg
            ELSE RangeMsg(parseInt(vp).val)]

\* errors, as handed to setValidationErrors in line 182.
ValidationErrorsOf(vn, vm, vp, mat) ==
    LET scalars == {f \in {"n", "m", "p"} :
                       \/ f = "n" /\ ScalarInvalid(vn)
                       \/ f = "m" /\ ScalarInvalid(vm)
                       \/ f = "p" /\ ScalarInvalid(vp)}
        cells == MatrixErrors(vn, vm, vp, mat)
        keys == scalars \cup (IF DOMAIN cells # {} THEN {"matrix"} ELSE {})
    IN  [k \in keys |->
            CASE k = "n" -> "N must be a positive integer."
              [] k = "m" -> "M must be a positive integer."
              [] k = "p" -> "P must be a positive integer."
              [] k = "matrix" -> cells]

\* isValid, the value validateForm returns.
validateForm(vn, vm, vp, mat) ==
    /\ ~ScalarInvalid(vn)
    /\ ~ScalarInvalid(vm)
    /\ ~ScalarInvalid(vp)
    /\ DOMAIN MatrixErrors(vn, vm, vp, mat) = {}

\* onBlur of N, M or P (lines 428, 443, 458).
Blur ==
    /\ validationErrors' = ValidationErrorsOf(n, m, p, matrix)
    /\ event' = "blur"
    /\ UNCHANGED <<n, m, p, matrix, solveVars, searchVars>>

---------------------------------------------------------------------------
(* Values that are null or an object / a string.                           *)

Null == [isNull |-> TRUE]

\* A string held in a `string | null` cell.
Message(text) == [isNull |-> FALSE, text |-> text]

---------------------------------------------------------------------------
(* The Solve button and handleSubmit, lines 186-242.                       *)

\* Lines 372-374.
isFormPotentiallyValid ==
    /\ ~isNaN(numN) /\ Gt(numN, 0)
    /\ ~isNaN(numM) /\ Gt(numM, 0)
    /\ ~isNaN(numP) /\ Gt(numP, 0)
    /\ Len(matrix) = numN.val

\* The Solve button without loading in its disabled attribute.
SolveButtonEnabled_NoLoading == isFormPotentiallyValid

\* disabled={loading || !isFormPotentiallyValid()}, line 482.
SolveButtonEnabled == ~loading /\ isFormPotentiallyValid

\* parsedMatrix, line 197.
ParsedMatrix(mat) ==
    [i \in 1..Len(mat) |-> [j \in 1..Len(mat[i]) |-> parseInt(mat[i][j])]]

\* SolveRequest with n and m exchanged.
SolveRequest_Swapped ==
    [method |-> "POST",
     url |-> "https://localhost:7219/api/TreasureHunt/solve",
     body |-> [n |-> numM, m |-> numN, p |-> numP,
               matrix |-> ParsedMatrix(matrix)]]

\* The request of lines 199-217.  JSON.stringify writes the integers of
\* inputData digit for digit, so the body is held as the object it encodes.
SolveRequest ==
    [method |-> "POST",
     url |-> "https://localhost:7219/api/TreasureHunt/solve",
     body |-> [n |-> numN, m |-> numM, p |-> numP,
               matrix |-> ParsedMatrix(matrix)]]

\* handleSubmit without the return of line 188.
HandleSubmit_NoGate ==
    /\ ~loading /\ isFormPotentiallyValid
    /\ Len(solveRequests) + Len(solveReading) < MaxInFlight
    /\ validationErrors' = ValidationErrorsOf(n, m, p, matrix)
    /\ loading' = TRUE
    /\ error' = Null
    /\ result' = Null
    /\ solveRequests' = Append(solveRequests, SolveRequest)
    /\ event' = "submit"
    /\ UNCHANGED <<n, m, p, matrix, solveReading, searchVars>>

\* handleSubmit without the setError(null) of line 192.
HandleSubmit_KeepError ==
    /\ SolveButtonEnabled
    /\ Len(solveRequests) + Len(solveReading) < MaxInFlight
    /\ validationErrors' = ValidationErrorsOf(n, m, p, matrix)
    /\ IF validateForm(n, m, p, matrix)
       THEN /\ loading' = TRUE
            /\ result' = Null
            /\ solveRequests' = Append(solveRequests, SolveRequest)
            /\ UNCHANGED error
       ELSE UNCHANGED <<loading, error, result, solveRequests>>
    /\ event' = "submit"
    /\ UNCHANGED <<n, m, p, matrix, solveReading, searchVars>>

\* handleSubmit without the setResult(null) of line 193.
HandleSubmit_KeepResult ==
    /\ SolveButtonEnabled
    /\ Len(solveRequests) + Len(solveReading) < MaxInFlight
    /\ validationErrors' = ValidationErrorsOf(n, m, p, matrix)
    /\ IF validateForm(n, m, p, matrix)
       THEN /\ loading' = TRUE
            /\ error' = Null
            /\ solveRequests' = Append(solveRequests, SolveRequest)
            /\ UNCHANGED result
       ELSE UNCHANGED <<loading, error, result, solveRequests>>
    /\ event' = "submit"
    /\ UNCHANGED <<n, m, p, matrix, solveReading, searchVars>>

\* handleSubmit up to the await of line 210.
HandleSubmit ==
    /\ SolveButtonEnabled
    /\ Len(solveRequests) + Len(solveReading) < MaxInFlight
    /\ validationErrors' = ValidationErrorsOf(n, m, p, matrix)
    /\ IF validateForm(n, m, p, matrix)
       THEN /\ loading' = TRUE
            /\ error' = Null
            /\ result' = Null
            /\ solveRequests' = Append(solveRequests, SolveRequest)
       ELSE UNCHANGED <<loading, error, result, solveRequests>>
    /\ event' = "submit"
    /\ UNCHANGED <<n, m, p, matrix, solveReading, searchVars>>

---------------------------------------------------------------------------
(* What the network answers.  A response is                                *)
(*   kind      "reject": fetch rejects (no connection), with err.message   *)
(*             in text; "http": fetch resolves with a Response;            *)
(*   ok, status, statusText   of the Response;                             *)
(*   isJson    whether the body parses as JSON; text, the body as sent;    *)
(*   message, title   the fields of a JSON error body ('' when absent);    *)
(*   data      the object of a JSON success body;                          *)
(*   jsonError err.message of the SyntaxError with which response.json()   *)
(*             rejects when the body is not JSON.  The wording is the      *)
(*             runtime's, not the component's, which only stores it: it    *)
(*             comes with the response ('' when the body is JSON).         *)

\* err.message of the TypeError of response.text() on a body that json()
\* has already read, in Chrome's wording; no formula depends on it.
BodyUsedMessage == "Failed to execute 'text' on 'Response': body stream already read"

Rejected(text) ==
    [kind |-> "reject", ok |-> FALSE, status |-> 0, statusText |-> "",
     isJson |-> FALSE, text |-> text, message |-> "", title |-> "",
     data |-> Null, jsonError |-> ""]

Success(data) ==
    [kind |-> "http", ok |-> TRUE, status |-> 200, statusText |-> "OK",
     isJson |-> TRUE, text |-> "", message |-> "", title |-> "",
     data |-> data, jsonError |-> ""]

\* A failure status with a JSON object body {message?, title?}; text is
\* the body as JSON.stringify writes it again.
FailureJson(status, statusText, message, title, text) ==
    [kind |-> "http", ok |-> FALSE, status |-> status, statusText |-> statusText,
     isJson |-> TRUE, text |-> text, message |-> message, title |-> title,
     data |-> Null, jsonError |-> ""]

\* A response whose body is not JSON.
NotJson(ok, status, statusText, text, jsonError) ==
    [kind |-> "http", ok |-> ok, status |-> status, statusText |-> statusText,
     isJson |-> FALSE, text |-> text, message |-> "", title |-> "",
     data |-> Null, jsonError |-> jsonError]

\* a || b on strings.
Or(a, b) == IF a # "" THEN a ELSE b

\* err.message of what the try block of lines 208-235 throws, or "" when
\* it completes.
SolveThrown(resp) ==
    IF resp.kind = "reject" THEN resp.text
    ELSE IF ~resp.ok
         THEN IF resp.isJson
              THEN "HTTP error " \o NumStr(resp.status) \o ": "
                       \o Or(resp.message, Or(resp.title, resp.text))
              ELSE BodyUsedMessage
         ELSE IF resp.isJson THEN "" ELSE resp.jsonError

SolveCompletes(resp) == resp.kind = "http" /\ resp.ok /\ resp.isJson

\* result and error after the continuation of handleSubmit, lines 219-241.
SolveResult(resp, old) == IF SolveCompletes(resp) THEN resp.data ELSE old

\* The catch block of lines 236-238 without setError.
SolveError_Dropped(resp, old) == old

SolveError(resp, old) ==
    IF SolveCompletes(resp)
    THEN old
    ELSE Message(Or(SolveThrown(resp),
                    "An error occurred while communicating with the server."))

\* handleSubmit without its finally block: loading stays as it was.
SolveLoadingAfter_Stuck == loading

\* The finally block, line 240.
SolveLoadingAfter == FALSE

\* The sequence s without its element number i.
Remove(s, i) ==
    [k \in 1..(Len(s) - 1) |-> IF k < i THEN s[k] ELSE s[k + 1]]

\* The fetch of line 210 resolves with the Response resp for request
\* number i: handleSubmit runs from line 210 to the await of line 224
\* (not ok) or of line 233 (ok) and is suspended there, reading the body.
\* No setter has run: loading is still true and nothing is stored.
SolveSettles(i, resp) ==
    /\ i \in 1..Len(solveRequests)
    /\ resp.kind = "http"
    /\ solveRequests' = Remove(solveRequests, i)
    /\ solveReading' = Append(solveReading, resp)
    /\ event' = "solveSettled"
    /\ UNCHANGED <<formVars, result, error, loading, searchVars>>

\* The rest of handleSubmit, run to its end: when the fetch of request
\* number i rejects with resp (line 210 to the catch and finally blocks),
\* or when the body of the response number i being read, resp, has been
\* read (lines 224-241).
SolveResponse(i, resp) ==
    /\ IF resp.kind = "reject"
       THEN /\ i \in 1..Len(solveRequests)
            /\ solveRequests' = Remove(solveRequests, i)
            /\ UNCHANGED solveReading
       ELSE /\ i \in 1..Len(solveReading)
            /\ solveReading[i] = resp
            /\ solveReading' = Remove(solveReading, i)
            /\ UNCHANGED solveRequests
    /\ result' = SolveResult(resp, result)
    /\ error' = SolveError(resp, error)
    /\ loading' = SolveLoadingAfter
    /\ event' = "solveResponse"
    /\ UNCHANGED <<formVars, searchVars>>

---------------------------------------------------------------------------
(* The lookup panel: the Result ID field, the SEARCH button and            *)
(* handleSearch, lines 245-286.                                            *)

\* onChange of the Result ID field, line 549.
ChangeSearchId(value) ==
    /\ searchId' = value
    /\ event' = "changeSearchId"
    /\ UNCHANGED <<formVars, solveVars, searchResult, searchError, searching,
                   searchRequests, searchReading>>

\* disabled={searching || !searchId}, line 561.
SearchButtonEnabled == ~searching /\ searchId # Empty

\* Line 248 with id < 0 for id <= 0.
SearchIdInvalid_ZeroOk(id) == isNaN(id) \/ Lt(id, 0)

\* Line 248.
SearchIdInvalid(id) == isNaN(id) \/ Le(id, 0)

SearchRequest(id) ==
    [method |-> "GET",
     url |-> "https://localhost:7219/api/TreasureHunt/" \o NumStr(id.val)]

\* handleSearch with setError(null) where line 254 has setSearchError(null).
HandleSearch_SetsError ==
    /\ SearchButtonEnabled
    /\ Len(searchRequests) + Len(searchReading) < MaxInFlight
    /\ IF SearchIdInvalid(parseInt(searchId))
       THEN /\ searchError' = Message("Please enter a valid positive ID number")
            /\ UNCHANGED <<searching, searchResult, searchRequests, error>>
       ELSE /\ searching' = TRUE
            /\ error' = Null
            /\ searchResult' = Null
            /\ searchRequests' = Append(searchRequests,
                                        SearchRequest(parseInt(searchId)))
            /\ UNCHANGED searchError
    /\ event' = "search"
    /\ UNCHANGED <<formVars, result, loading, solveRequests, solveReading,
                   searchId, searchReading>>

\* handleSearch up to the await of line 258.
HandleSearch ==
    /\ SearchButtonEnabled
    /\ Len(searchRequests) + Len(searchReading) < MaxInFlight
    /\ IF SearchIdInvalid(parseInt(searchId))
       THEN /\ searchError' = Message("Please enter a valid positive ID number")
            /\ UNCHANGED <<searching, searchResult, searchRequests>>
       ELSE /\ searching' = TRUE
            /\ searchError' = Null
            /\ searchResult' = Null
            /\ searchRequests' = Append(searchRequests,
                                        SearchRequest(parseInt(searchId)))
    /\ event' = "search"
    /\ UNCHANGED <<formVars, solveVars, searchId, searchReading>>

\* SearchThrown with the message field of the error body ignored.
SearchThrown_NoMessage(resp) ==
    IF resp.kind = "reject" THEN resp.text
    ELSE IF ~resp.ok
         THEN "Error: " \o NumStr(resp.status)
         ELSE IF resp.isJson THEN "" ELSE resp.jsonError

\* err.message of what the try block of lines 257-279 throws, or "".
SearchThrown(resp) ==
    IF resp.kind = "reject" THEN resp.text
    ELSE IF ~resp.ok
         THEN IF resp.isJson
              THEN Or(resp.message,
                      Or(resp.title, "Error: " \o NumStr(resp.status)))
              ELSE "Error: " \o NumStr(resp.status) \o " - " \o resp.statusText
         ELSE IF resp.isJson THEN "" ELSE resp.jsonError

SearchCompletes(resp) == resp.kind = "http" /\ resp.ok /\ resp.isJson

SearchResultAfter(resp, old) == IF SearchCompletes(resp) THEN resp.data ELSE old

SearchErrorAfter(resp, old) ==
    IF SearchCompletes(resp)
    THEN old
    ELSE Message(Or(SearchThrown(resp), "Failed to fetch result"))

\* The finally block, line 284.
SearchingAfter == FALSE

\* The fetch of line 258 resolves with the Response resp for request
\* number i: handleSearch runs from line 258 to the await of line 268
\* (not ok) or of line 278 (ok) and is suspended there, reading the body.
SearchSettles(i, resp) ==
    /\ i \in 1..Len(searchRequests)
    /\ resp.kind = "http"
    /\ searchRequests' = Remove(searchRequests, i)
    /\ searchReading' = Append(searchReading, resp)
    /\ event' = "searchSettled"
    /\ UNCHANGED <<formVars, solveVars, searchId, searchResult, searchError,
                   searching>>

\* The rest of handleSearch, run to its end: when the fetch of request
\* number i rejects with resp, or when the body of the response number i
\* being read, resp, has been read (lines 268-285).
SearchResponse(i, resp) ==
    /\ IF resp.kind = "reject"
       THEN /\ i \in 1..Len(searchRequests)
            /\ searchRequests' = Remove(searchRequests, i)
            /\ UNCHANGED searchReading
       ELSE /\ i \in 1..Len(searchReading)
            /\ searchReading[i] = resp
            /\ searchReading' = Remove(searchReading, i)
            /\ UNCHANGED searchRequests
    /\ searchResult' = SearchResultAfter(resp, searchResult)
    /\ searchError' = SearchErrorAfter(resp, searchError)
    /\ searching' = SearchingAfter
    /\ event' = "searchResponse"
    /\ UNCHANGED <<formVars, solveVars, searchId>>

---------------------------------------------------------------------------
(* The values the events carry.                                            *)

\* event.target.value of a change of N, M or P: '', '1', '2', '3', '0',
\* '02', '0.5', '-1'.
FieldInputs ==
    {Empty, <<"1">>, <<"2">>, <<"3">>, <<"0">>, <<"0", "2">>,
     <<"0", ".", "5">>, <<"-", "1">>}

\* event.target.value of a change of a cell: '', '0', '1', '2', '1.5'.
CellInputs == {Empty, <<"0">>, <<"1">>, <<"2">>, <<"1", ".", "5">>}

Indices == 0..(MaxCells - 1)

\* The smallest sets that fill a form: '' and '1'.
SmallFieldInputs == {Empty, <<"1">>}

SmallCellInputs == {Empty, <<"1">>}

---------------------------------------------------------------------------
(* The state after the first render and its effect: every useState cell    *)
(* holds its initial value, and the effect, run with n = '', has set the   *)
(* matrix to [] (line 91).                                                 *)

Init ==
    /\ n = Empty
    /\ m = Empty
    /\ p = Empty
    /\ matrix = <<>>
    /\ result = Null
    /\ error = Null
    /\ loading = FALSE
    /\ validationErrors = NoErrors
    /\ searchId = Empty
    /\ searchResult = Null
    /\ searchError = Null
    /\ searching = FALSE
    /\ solveRequests = <<>>
    /\ solveReading = <<>>
    /\ searchRequests = <<>>
    /\ searchReading = <<>>
    /\ event = "mount"

\* The form alone: edits of N, M, P and the cells, and blur.
NextForm ==
    \/ \E value \in FieldInputs : ChangeN(value)
    \/ \E value \in FieldInputs : ChangeM(value)
    \/ \E value \in FieldInputs : ChangeP(value)
    \/ \E row \in Indices, col \in Indices, value \in CellInputs :
          ChangeCell(row, col, value)
    \/ Blur

SpecForm == Init /\ [][NextForm]_vars

---------------------------------------------------------------------------
(* The form under zero-leading keystrokes.                                 *)

\* event.target.value of a change of N, M or P: '', '1', '0', '00', '007',
\* '7'.
ZeroFieldInputs ==
    {Empty, <<"1">>, <<"0">>, <<"0", "0">>, <<"0", "0", "7">>, <<"7">>}

NextZero ==
    \/ \E value \in ZeroFieldInputs : ChangeN(value)
    \/ \E value \in ZeroFieldInputs : ChangeM(value)
    \/ \E value \in ZeroFieldInputs : ChangeP(value)
    \/ \E row \in Indices, col \in Indices, value \in SmallCellInputs :
          ChangeCell(row, col, value)
    \/ Blur

SpecZero == Init /\ [][NextZero]_vars

---------------------------------------------------------------------------
(* The form and the solve flow.                                            *)

\* An HTML page sent where JSON is expected, and what response.json() of
\* the fetched response says of it.
HtmlBody == "<html>Bad Gateway</html>"

HtmlJsonError == "Unexpected token '<', \"<html>Bad \"... is not valid JSON"

SolveData == [id |-> 5, minimumFuel |-> 12]

SolveResponses ==
    {Success(SolveData),
     FailureJson(400, "Bad Request", "invalid matrix", "", "{\"message\":\"invalid matrix\"}"),
     Rejected("Failed to fetch")}

\* event.target.value of a change of N, M or P: '', '1', '2', '02', '01.5'.
SolveFieldInputs ==
    {Empty, <<"1">>, <<"2">>, <<"0", "2">>, <<"0", "1", ".", "5">>}

SolveCellInputs == {Empty, <<"0">>, <<"1">>, <<"2">>}

NextSolve ==
    \/ \E value \in SolveFieldInputs : ChangeN(value)
    \/ \E value \in SolveFieldInputs : ChangeM(value)
    \/ \E value \in SolveFieldInputs : ChangeP(value)
    \/ \E row \in Indices, col \in Indices, value \in SolveCellInputs :
          ChangeCell(row, col, value)
    \/ Blur
    \/ HandleSubmit
    \/ \E i \in 1..MaxInFlight, resp \in SolveResponses : SolveSettles(i, resp)
    \/ \E i \in 1..MaxInFlight, resp \in SolveResponses : SolveResponse(i, resp)

SpecSolve == Init /\ [][NextSolve]_vars

---------------------------------------------------------------------------
(* The whole component: the form, the solve flow and the lookup flow.      *)

\* event.target.value of a change of the Result ID: '', '0', '7', '.5'.
SearchIdInputs == {Empty, <<"0">>, <<"7">>, <<".", "5">>}

SearchData ==
    [id |-> 7, minimumFuel |-> 12,
     input |-> [n |-> 1, m |-> 1, p |-> 1, matrix |-> <<<<1>>>>],
     calculatedAt |-> "2025-04-01T10:00:00Z"]

SearchResponses ==
    {Success(SearchData),
     FailureJson(404, "Not Found", "not found", "", "{\"message\":\"not found\"}"),
     NotJson(FALSE, 502, "Bad Gateway", HtmlBody, HtmlJsonError),
     NotJson(TRUE, 200, "OK", HtmlBody, HtmlJsonError),
     Rejected("Failed to fetch")}

Next ==
    \/ \E value \in SmallFieldInputs : ChangeN(value)
    \/ \E value \in SmallFieldInputs : ChangeM(value)
    \/ \E value \in SmallFieldInputs : ChangeP(value)
    \/ \E row \in Indices, col \in Indices, value \in SmallCellInputs :
          ChangeCell(row, col, value)
    \/ Blur
    \/ HandleSubmit
    \/ \E i \in 1..MaxInFlight, resp \in SolveResponses : SolveSettles(i, resp)
    \/ \E i \in 1..MaxInFlight, resp \in SolveResponses : SolveResponse(i, resp)
    \/ \E value \in SearchIdInputs : ChangeSearchId(value)
    \/ HandleSearch
    \/ \E i \in 1..MaxInFlight, resp \in SearchResponses : SearchSettles(i, resp)
    \/ \E i \in 1..MaxInFlight, resp \in SearchResponses : SearchResponse(i, resp)

Spec == Init /\ [][Next]_vars

\* The network answers every request: a response that can arrive does.
FairSpec ==
    /\ Spec
    /\ WF_vars(\E i \in 1..MaxInFlight, resp \in SolveResponses : SolveSettles(i, resp))
    /\ WF_vars(\E i \in 1..MaxInFlight, resp \in SolveResponses : SolveResponse(i, resp))
    /\ WF_vars(\E i \in 1..MaxInFlight, resp \in SearchResponses : SearchSettles(i, resp))
    /\ WF_vars(\E i \in 1..MaxInFlight, resp \in SearchResponses : SearchResponse(i, resp))

---------------------------------------------------------------------------
(* The form under cell keystrokes.                                         *)

CellFieldInputs == {Empty, <<"1">>, <<"2">>}

\* event.target.value of a change of a cell: '', '0', '01', '2', '1.5', 'x'.
CellKeyInputs ==
    {Empty, <<"0">>, <<"0", "1">>, <<"2">>, <<"1", ".", "5">>, <<"x">>}

NextCells ==
    \/ \E value \in CellFieldInputs : ChangeN(value)
    \/ \E value \in CellFieldInputs : ChangeM(value)
    \/ \E value \in CellFieldInputs : ChangeP(value)
    \/ \E row \in Indices, col \in Indices, value \in CellKeyInputs :
          ChangeCell(row, col, value)
    \/ Blur

SpecCells == Init /\ [][NextCells]_vars

---------------------------------------------------------------------------
(* The lookup flow alone.                                                  *)

\* event.target.value of a change of the Result ID: '', '0', '7', '.5',
\* '-3', 'abc', '7a', '007', ' 7', '\t7'.
LookupIdInputs ==
    {Empty, <<"0">>, <<"7">>, <<".", "5">>, <<"-", "3">>, <<"a", "b", "c">>,
     <<"7", "a">>, <<"0", "0", "7">>, <<" ", "7">>, <<"\t", "7">>}

NextSearch ==
    \/ \E value \in LookupIdInputs : ChangeSearchId(value)
    \/ HandleSearch
    \/ \E i \in 1..MaxInFlight, resp \in SearchResponses : SearchSettles(i, resp)
    \/ \E i \in 1..MaxInFlight, resp \in SearchResponses : SearchResponse(i, resp)

SpecSearch == Init /\ [][NextSearch]_vars

---------------------------------------------------------------------------
(* Both flows under the same failed answers.                               *)

\* Non-success responses: a JSON body with a message, with a title only,
\* with neither, and a body that is not JSON.
Failures ==
    {FailureJson(404, "Not Found", "not found", "", "{\"message\":\"not found\"}"),
     FailureJson(500, "Internal Server Error", "", "Server Error",
                 "{\"title\":\"Server Error\"}"),
     FailureJson(400, "Bad Request", "", "", "{}"),
     NotJson(FALSE, 502, "Bad Gateway", HtmlBody, HtmlJsonError)}

\* A 200 answer whose body is not JSON.
NotJsonOk == NotJson(TRUE, 200, "OK", HtmlBody, HtmlJsonError)

ReplyIdInputs == {Empty, <<"7">>}

NextReplies ==
    \/ \E value \in SmallFieldInputs : ChangeN(value)
    \/ \E value \in SmallFieldInputs : ChangeM(value)
    \/ \E value \in SmallFieldInputs : ChangeP(value)
    \/ \E row \in Indices, col \in Indices, value \in SmallCellInputs :
          ChangeCell(row, col, value)
    \/ Blur
    \/ HandleSubmit
    \/ \E i \in 1..MaxInFlight, resp \in {Success(SolveData), NotJsonOk} \cup Failures :
          SolveSettles(i, resp)
    \/ \E i \in 1..MaxInFlight, resp \in {Success(SolveData), NotJsonOk} \cup Failures :
          SolveResponse(i, resp)
    \/ \E value \in ReplyIdInputs : ChangeSearchId(value)
    \/ HandleSearch
    \/ \E i \in 1..MaxInFlight, resp \in {Success(SearchData), NotJsonOk} \cup Failures :
          SearchSettles(i, resp)
    \/ \E i \in 1..MaxInFlight, resp \in {Success(SearchData), NotJsonOk} \cup Failures :
          SearchResponse(i, resp)

SpecReplies == Init /\ [][NextReplies]_vars

---------------------------------------------------------------------------
(* Claims.                                                                 *)

\* The value of a string of digits, read from its last digit.
RECURSIVE DecimalValue(_)
DecimalValue(s) ==
    IF s = Empty
    THEN 0
    ELSE 10 * DecimalValue(SubSeq(s, 1, Len(s) - 1)) + DigitVal(s[Len(s)])

PositiveInt(x) == ~x.nan /\ x.val \in Nat \ {0}

\* C1 (SpecSolve): every POST request that is issued carries n, m and p as
\* positive integers and a matrix of exactly n rows of exactly m entries,
\* every entry an integer in [1, p].
C1_RequestWellFormed ==
    \A k \in 1..Len(solveRequests) :
        LET b == solveRequests[k].body
        IN  /\ PositiveInt(b.n) /\ PositiveInt(b.m) /\ PositiveInt(b.p)
            /\ Len(b.matrix) = b.n.val
            /\ \A i \in 1..Len(b.matrix) :
                  /\ Len(b.matrix[i]) = b.m.val
                  /\ \A j \in 1..Len(b.matrix[i]) :
                        /\ ~b.matrix[i][j].nan
                        /\ b.matrix[i][j].val \in 1..b.p.val

\* A request is in flight that was built from a 1 x 2 grid holding 1 and 2
\* under P = 2.
C1_Witness ==
    \E k \in 1..Len(solveRequests) :
        /\ solveRequests[k].body.p = Num(2)
        /\ solveRequests[k].body.matrix = <<<<Num(1), Num(2)>>>>

\* C2 (SpecForm): whenever N and M both parse as positive integers, the
\* matrix buffer has exactly N rows and every row has exactly M cells.
C2_DimensionsMatch ==
    (PositiveInt(numN) /\ PositiveInt(numM)) =>
        /\ Len(matrix) = numN.val
        /\ \A i \in 1..Len(matrix) : Len(matrix[i]) = numM.val

\* A change of N has just grown a grid that holds an entered value to two rows.
C2_Witness ==
    /\ event = "changeN"
    /\ numN = Num(2) /\ numM = Num(1)
    /\ Len(matrix) = 2
    /\ matrix[1][1] # Empty

\* An index (row i, column j, from 1) lies inside the grid of the current N x M.
InOldGrid(i, j) ==
    /\ PositiveInt(numN) /\ PositiveInt(numM)
    /\ i \in 1..numN.val /\ j \in 1..numM.val

\* C3 (SpecForm): a step that changes N or M to a valid N x M leaves a
\* matrix of the new dimensions that holds the old value at every index
\* inside both grids and '' at every index inside the new grid only.
C3_ResizePreserves ==
    [][(<<n, m>>' # <<n, m>> /\ PositiveInt(numN') /\ PositiveInt(numM')) =>
          /\ Len(matrix') = numN'.val
          /\ \A i \in 1..numN'.val :
                /\ Len(matrix'[i]) = numM'.val
                /\ \A j \in 1..numM'.val :
                      matrix'[i][j] = IF InOldGrid(i, j) THEN matrix[i][j] ELSE Empty
      ]_vars

\* A change of M has just added a second column: the entered value of the
\* first column is kept, the new cell is empty.
C3_Witness ==
    /\ event = "changeM"
    /\ numN = Num(1) /\ numM = Num(2)
    /\ matrix[1][1] = <<"2">>
    /\ matrix[1][2] = Empty

\* The cells of the current N x M grid (indices from 0) that are empty or
\* hold a number outside [1, P].
GridCells ==
    IF PositiveInt(numN) /\ PositiveInt(numM)
    THEN (0..(numN.val - 1)) \X (0..(numM.val - 1))
    ELSE {}

CellGood(c) ==
    LET cell == matrix[c[1] + 1][c[2] + 1]
    IN  /\ cell # Empty
        /\ IsDigitString(cell)
        /\ DecimalValue(cell) \in 1..numP.val

BadCells == {c \in GridCells : ~CellGood(c)}

ScalarsPositive == PositiveInt(numN) /\ PositiveInt(numM) /\ PositiveInt(numP)

\* C4 (SpecForm): with N, M, P > 0 and every cell of the grid in [1, P],
\* validateForm returns true and its error map is empty; with exactly one
\* cell empty or outside [1, P] it returns false and its error map holds
\* the entry of that cell and nothing else.  After a blur the stored map is
\* that map.
C4_ValidateForm ==
    LET errors == ValidationErrorsOf(n, m, p, matrix)
        isValid == validateForm(n, m, p, matrix)
    IN  /\ (ScalarsPositive /\ BadCells = {}) =>
              /\ isValid
              /\ errors = NoErrors
              /\ event = "blur" => validationErrors = NoErrors
        /\ \A c \in GridCells :
              (ScalarsPositive /\ BadCells = {c}) =>
                  /\ ~isValid
                  /\ DOMAIN errors = {"matrix"}
                  /\ DOMAIN errors["matrix"] = {c}
                  /\ event = "blur" =>
                        /\ DOMAIN validationErrors = {"matrix"}
                        /\ DOMAIN validationErrors["matrix"] = {c}

\* A blur has validated a 1 x 2 grid under P = 1 whose first cell is in
\* range and whose second cell, 2, is not: the map holds the key 0-1 alone.
C4_Witness ==
    /\ event = "blur"
    /\ ScalarsPositive
    /\ matrix = <<<<<<"1">>, <<"2">>>>>>
    /\ numP = Num(1)
    /\ BadCells = {<<0, 1>>}
    /\ DOMAIN validationErrors = {"matrix"}
    /\ DOMAIN validationErrors["matrix"] = {<<0, 1>>}

\* A blur has validated a fully populated grid: the map is empty.
C4_WitnessValid ==
    /\ event = "blur"
    /\ ScalarsPositive
    /\ Len(matrix) = 2
    /\ BadCells = {}
    /\ validationErrors = NoErrors

\* C5 (SpecSolve): an activation of the solve trigger on which validateForm
\* fails issues no request and leaves loading false and the stored result
\* and error as they were.
C5_FailedSubmitIsIdle ==
    [][(event' = "submit" /\ ~validateForm(n, m, p, matrix)) =>
          /\ solveRequests' = solveRequests
          /\ solveReading' = solveReading
          /\ loading' = FALSE
          /\ result' = result
          /\ error' = error
      ]_vars

\* The trigger was activated on a form that fails validation while the
\* result of an earlier solve is stored: no request, not loading, the
\* result still there.
C5_Witness ==
    /\ event = "submit"
    /\ ~validateForm(n, m, p, matrix)
    /\ validationErrors # NoErrors
    /\ solveRequests = <<>>
    /\ solveReading = <<>>
    /\ ~loading
    /\ result = SolveData

\* A request of the flow is outstanding: its fetch has not settled, or the
\* body of its response is still being read.
SolvePending == solveRequests # <<>> \/ solveReading # <<>>

SearchPending == searchRequests # <<>> \/ searchReading # <<>>

\* C6 (Spec): at most one request of each flow is outstanding, and a
\* request is outstanding only while the flow's busy flag is true, when the
\* flow's trigger is disabled.
C6_OneRequestPerFlow ==
    /\ Len(solveRequests) + Len(solveReading) <= 1
    /\ Len(searchRequests) + Len(searchReading) <= 1
    /\ SolvePending => loading /\ ~SolveButtonEnabled
    /\ SearchPending => searching /\ ~SearchButtonEnabled

\* Both flows have their one request outstanding at the same time.
C6_Witness ==
    /\ Len(solveRequests) = 1
    /\ Len(searchRequests) = 1
    /\ loading
    /\ searching

\* A step in which the pending solve request resolves: its fetch rejects,
\* or the body of its response has been read.
SolveResolves == SolvePending /\ ~SolvePending'

\* C7 as claimed (SpecSolve): while a solve request is pending the trigger
\* is disabled, and once the request has resolved the trigger is enabled.
C7_Original ==
    /\ [](SolvePending => ~SolveButtonEnabled)
    /\ [][SolveResolves => SolveButtonEnabled']_vars

\* C7 as amended (SpecSolve): while a solve request is pending the trigger
\* is disabled; when the request resolves, with success or with failure,
\* loading is false again and the trigger is enabled exactly when the form,
\* as the edits made meanwhile have left it, is potentially valid.
C7_Reenabled ==
    /\ [](SolvePending => ~SolveButtonEnabled)
    /\ [][SolveResolves =>
             /\ loading /\ ~loading'
             /\ SolveButtonEnabled' <=> isFormPotentiallyValid
         ]_vars

\* A request has just resolved with a failure and the trigger is enabled.
C7_Witness ==
    /\ event = "solveResponse"
    /\ error # Null
    /\ ~loading
    /\ SolveButtonEnabled

ExactlyOne(a, b) == (a = Null) # (b = Null)

\* The steps of the solve flow that touch its busy flag or its requests:
\* idle -> pending issues the one request; while pending, the fetch
\* resolves and the body is read, the flag staying true and nothing being
\* stored; pending -> success | failure ends the one request and leaves
\* exactly one of result and error set.
SolveLifecycle ==
    (\/ loading' # loading
     \/ solveRequests' # solveRequests
     \/ solveReading' # solveReading) =>
        \/ /\ ~loading /\ loading'
           /\ ~SolvePending
           /\ Len(solveRequests') = 1 /\ solveReading' = <<>>
        \/ /\ loading /\ loading'
           /\ Len(solveRequests) = 1 /\ solveReading = <<>>
           /\ solveRequests' = <<>> /\ Len(solveReading') = 1
           /\ result' = Null /\ error' = Null
        \/ /\ loading /\ ~loading'
           /\ Len(solveRequests) + Len(solveReading) = 1
           /\ ~SolvePending'
           /\ ExactlyOne(result', error')

SearchLifecycle ==
    (\/ searching' # searching
     \/ searchRequests' # searchRequests
     \/ searchReading' # searchReading) =>
        \/ /\ ~searching /\ searching'
           /\ ~SearchPending
           /\ Len(searchRequests') = 1 /\ searchReading' = <<>>
        \/ /\ searching /\ searching'
           /\ Len(searchRequests) = 1 /\ searchReading = <<>>
           /\ searchRequests' = <<>> /\ Len(searchReading') = 1
           /\ searchResult' = Null /\ searchError' = Null
        \/ /\ searching /\ ~searching'
           /\ Len(searchRequests) + Len(searchReading) = 1
           /\ ~SearchPending'
           /\ ExactlyOne(searchResult', searchError')

\* C8 (FairSpec): the busy flag of each flow goes false -> true only by
\* issuing a request and true -> false only by that request's answer, which
\* is handled once; and, the network answering, every pending request ends
\* with the busy flag false and exactly one of result and error set.
C8_Lifecycle ==
    /\ [][SolveLifecycle /\ SearchLifecycle]_vars
    /\ loading ~> (~loading /\ ExactlyOne(result, error))
    /\ searching ~> (~searching /\ ExactlyOne(searchResult, searchError))

\* A solve request has just ended in failure while a lookup is pending.
C8_Witness ==
    /\ event = "solveResponse"
    /\ ~loading
    /\ result = Null /\ error # Null
    /\ searching /\ Len(searchRequests) = 1

\* The digits a string starts with.
RECURSIVE DigitPrefix(_)
DigitPrefix(s) ==
    IF s # Empty /\ Head(s) \in DigitChars
    THEN <<Head(s)>> \o DigitPrefix(Tail(s))
    ELSE Empty

\* The integer value of a field: the value of the digits it starts with
\* ('2' is 2, '1.5' is 1).
IntegerValue(s) == DecimalValue(DigitPrefix(s))

\* The body the claim describes: the integer values of N, M, P and the
\* integer value of every cell of the buffer.
ExpectedBody ==
    [n |-> Num(IntegerValue(n)), m |-> Num(IntegerValue(m)),
     p |-> Num(IntegerValue(p)),
     matrix |-> [i \in 1..Len(matrix) |->
                    [j \in 1..Len(matrix[i]) |-> Num(DecimalValue(matrix[i][j]))]]]

\* C9 (SpecSolve): a submit that passes validation issues one POST whose
\* body is {n, m, p, matrix} with the integer values of the fields and of
\* the cells; the answer {id, minimumFuel} of a success response is stored
\* as the result, with the error unset and loading false.
C9_BodyAndResult ==
    [][/\ (event' = "submit" /\ validateForm(n, m, p, matrix)) =>
             /\ Len(solveRequests') = Len(solveRequests) + 1
             /\ solveRequests'[Len(solveRequests')].method = "POST"
             /\ solveRequests'[Len(solveRequests')].body = ExpectedBody
       /\ \A i \in 1..MaxInFlight, resp \in SolveResponses :
             (SolveResponse(i, resp) /\ resp.ok /\ resp.isJson) =>
                 /\ result' = [id |-> resp.data.id,
                               minimumFuel |-> resp.data.minimumFuel]
                 /\ error' = Null
                 /\ loading' = FALSE
      ]_vars

\* A success response has just been stored.
C9_Witness ==
    /\ event = "solveResponse"
    /\ result = [id |-> 5, minimumFuel |-> 12]
    /\ error = Null
    /\ ~loading

\* C10 as claimed (SpecForm): each of N, M, P is stored empty or as a
\* string of digits that does not start with 0.
C10_FieldsNumeric ==
    \A f \in {n, m, p} : f = Empty \/ IsPositiveIntString(f)

\* C11 (SpecZero): a change event with value '007' on N stores '7', and a
\* change event with value '0' on N leaves the stored N, the matrix and the
\* validation errors as they were: an unset N stays unset.
C11_ZeroLeading ==
    [][/\ ChangeN(<<"0", "0", "7">>) => n' = <<"7">>
       /\ ChangeN(<<"0">>) =>
             /\ n' = n
             /\ matrix' = matrix
             /\ validationErrors' = validationErrors
             /\ (n = Empty => n' = Empty)
      ]_vars

\* A change of N has just stored '7' over an N that a blur had flagged as
\* unset.
C11_Witness ==
    /\ event = "changeN"
    /\ n = <<"7">>
    /\ Has(validationErrors, "n")

\* C12 (Spec): when a lookup is answered by a non-success response whose
\* JSON body has a message field, the search error is exactly that message,
\* searchResult is unset and searching is false.
C12_SearchMessage ==
    [][\A i \in 1..MaxInFlight, resp \in SearchResponses :
          (/\ SearchResponse(i, resp)
           /\ resp.kind = "http" /\ ~resp.ok /\ resp.isJson /\ resp.message # "") =>
              /\ searchError' = Message(resp.message)
              /\ searchResult' = Null
              /\ searching' = FALSE
      ]_vars

\* A lookup has just been answered 404 {message: "not found"}.
C12_Witness ==
    /\ event = "searchResponse"
    /\ searchError = Message("not found")
    /\ searchResult = Null
    /\ ~searching

\* C13 as claimed (SpecReplies): for the same non-success response, the
\* error string the lookup flow stores is the one the solve flow stores,
\* and the other way round.
C13_SamePolicy ==
    [][\A i \in 1..MaxInFlight, resp \in Failures :
          /\ SearchResponse(i, resp) => searchError' = SolveError(resp, error)
          /\ SolveResponse(i, resp) => error' = SearchErrorAfter(resp, searchError)
      ]_vars

\* C14 as claimed (SpecReplies): a solve request answered by a non-success
\* response whose body is not JSON ends with loading false, no result, and
\* one error message that carries the HTTP status and the raw body text.
C14_RawTextFallback ==
    [][\A i \in 1..MaxInFlight, resp \in Failures :
          (SolveResponse(i, resp) /\ ~resp.isJson) =>
              /\ loading' = FALSE
              /\ result' = Null
              /\ error' = Message("HTTP error " \o NumStr(resp.status) \o ": "
                                      \o resp.text)
      ]_vars

InvalidIdMessage == Message("Please enter a valid positive ID number")

\* C15 as claimed (Spec): every activation of the solve trigger leaves the
\* solve error unset, and every activation of the search trigger leaves the
\* search error unset or holding the message of this activation.
C15_Original ==
    [][/\ event' = "submit" => error' = Null
       /\ event' = "search" =>
              \/ searchError' = Null
              \/ SearchIdInvalid(parseInt(searchId)) /\ searchError' = InvalidIdMessage
      ]_vars

\* C15 as amended (Spec): an activation of the solve trigger that passes
\* validation unsets the solve error, and one that fails validation leaves
\* it as it was; an activation of the search trigger unsets the search
\* error when the id is valid and replaces it by the invalid-ID message
\* otherwise; neither touches the other flow's error, and while a request
\* is pending its flow's error is unset.
C15_ErrorReset ==
    /\ [][/\ (event' = "submit" /\ validateForm(n, m, p, matrix)) => error' = Null
          /\ (event' = "submit" /\ ~validateForm(n, m, p, matrix)) => error' = error
          /\ event' = "submit" => searchError' = searchError
          /\ (event' = "search" /\ ~SearchIdInvalid(parseInt(searchId))) =>
                 searchError' = Null
          /\ (event' = "search" /\ SearchIdInvalid(parseInt(searchId))) =>
                 searchError' = InvalidIdMessage
          /\ event' = "search" => error' = error
         ]_vars
    /\ [](loading => error = Null)
    /\ [](searching => searchError = Null)

\* The solve trigger has just issued a request: the solve error is unset
\* while the error of an earlier failed lookup is still stored.
C15_Witness ==
    /\ event = "submit"
    /\ loading
    /\ error = Null
    /\ searchError = Message("not found")

\* What the solve flow reads and writes, and what the search flow reads and
\* writes.
SolveSide == <<n, m, p, matrix, validationErrors, result, error, loading,
               solveRequests, solveReading>>

SearchSide == <<searchId, searchResult, searchError, searching, searchRequests,
                searchReading>>

\* C16 (Spec): every step of the solve flow (trigger, answer) leaves
\* searchId, searchResult, searchError and searching unchanged, and every
\* step of the search flow (id change, trigger, answer) leaves N, M, P, the
\* matrix, the validation errors, result, error and loading unchanged; so
\* a step of one flow changes neither whether the other flow's trigger is
\* enabled nor the request it would issue, and the steps of the two flows
\* commute.
C16_FlowsIndependent ==
    [][/\ event' \in {"submit", "solveSettled", "solveResponse"} =>
              /\ SearchSide' = SearchSide
              /\ SearchButtonEnabled' = SearchButtonEnabled
              /\ parseInt(searchId)' = parseInt(searchId)
       /\ event' \in {"changeSearchId", "search", "searchSettled",
                      "searchResponse"} =>
              /\ SolveSide' = SolveSide
              /\ SolveButtonEnabled' = SolveButtonEnabled
              /\ validateForm(n, m, p, matrix)' = validateForm(n, m, p, matrix)
              /\ SolveRequest' = SolveRequest
      ]_vars

\* A lookup has just been answered with a record while a solve request is
\* pending.
C16_Witness ==
    /\ event = "searchResponse"
    /\ searchResult = SearchData
    /\ loading
    /\ Len(solveRequests) = 1

\* The ids that hold no integer greater than 0, and those that hold 7.
NotPositiveIds == {<<"0">>, <<".", "5">>, <<"-", "3">>, <<"a", "b", "c">>}

SevenIds ==
    {<<"7">>, <<"7", "a">>, <<"0", "0", "7">>, <<" ", "7">>, <<"\t", "7">>}

\* C17 (SpecSearch): every GET request carries a positive integer id; an
\* activation of the search trigger on a searchId that does not parse to an
\* integer greater than 0 issues no request, leaves searching false and
\* sets the search error to the fixed invalid-ID message; an activation on
\* a searchId that parses to 7 issues the request for 7.
C17_PositiveIdOnly ==
    /\ [](\A k \in 1..Len(searchRequests) :
             /\ searchRequests[k].method = "GET"
             /\ searchRequests[k].url = "https://localhost:7219/api/TreasureHunt/7")
    /\ [][event' = "search" =>
              /\ searchId \in NotPositiveIds \cup SevenIds
              /\ searchId \in NotPositiveIds <=> SearchIdInvalid(parseInt(searchId))
              /\ searchId \in NotPositiveIds =>
                    /\ searchRequests' = searchRequests
                    /\ ~SearchPending /\ ~SearchPending'
                    /\ searching' = FALSE
                    /\ searchError' = InvalidIdMessage
              /\ searchId \in SevenIds =>
                    /\ Len(searchRequests') = 1
                    /\ searching' = TRUE
         ]_vars

\* The search trigger has just been activated on '-3'.
C17_Witness ==
    /\ event = "search"
    /\ searchId = <<"-", "3">>
    /\ searchRequests = <<>>
    /\ ~searching
    /\ searchError = InvalidIdMessage

\* A field holds an integer greater than 0.
GreaterThanZero(s) == s # Empty /\ IsDigitString(s) /\ DecimalValue(s) > 0

\* A cell of the grid that is empty or unparseable or, P being valid,
\* outside [1, P].
CellFlagged(c) ==
    LET cell == matrix[c[1] + 1][c[2] + 1]
    IN  \/ cell = Empty
        \/ ~IsDigitString(cell)
        \/ GreaterThanZero(p) /\ DecimalValue(cell) \notin 1..DecimalValue(p)

\* C18 as claimed (SpecForm): the error map of validateForm has an n, m or
\* p entry exactly for each scalar that is empty or not greater than 0, a
\* row-col entry exactly for each cell inside the N x M bounds that is
\* empty or unparseable or, P being valid, outside [1, P]; validateForm
\* returns true exactly when the map has no entry; a blur stores that map.
C18_ErrorMap ==
    LET errors == ValidationErrorsOf(n, m, p, matrix)
    IN  /\ Has(errors, "n") <=> ~GreaterThanZero(n)
        /\ Has(errors, "m") <=> ~GreaterThanZero(m)
        /\ Has(errors, "p") <=> ~GreaterThanZero(p)
        /\ CellKeys(errors) = {c \in GridCells : CellFlagged(c)}
        /\ validateForm(n, m, p, matrix) <=> errors = NoErrors
        /\ event = "blur" => validationErrors = errors

\* C19 as claimed (SpecSolve): the solve trigger is enabled exactly when no
\* solve request is pending, N, M and P hold integers greater than 0 and
\* the matrix has N rows of M cells each.
C19_TriggerEnabled ==
    SolveButtonEnabled <=>
        /\ ~SolvePending
        /\ GreaterThanZero(n) /\ GreaterThanZero(m) /\ GreaterThanZero(p)
        /\ Len(matrix) = DecimalValue(n)
        /\ \A i \in 1..Len(matrix) : Len(matrix[i]) = DecimalValue(m)

\* The entries of the error map other than the cell errors.
ScalarErrors(ve) == [k \in (DOMAIN ve) \ {"matrix"} |-> ve[k]]

\* The cell errors of ve, the one of cell c left out.
CellErrorsBut(ve, c) == [k \in CellKeys(ve) \ {c} |-> ve["matrix"][k]]

\* C20 (SpecCells): a change event on cell (i, j) whose value is empty or
\* digits only stores the value in cell (i, j) and removes the i-j entry of
\* the validation errors, every other cell, N, M, P and every other
\* validation error unchanged; a change event with any other value changes
\* nothing; every cell holds the empty string or a string of digits.
C20_CellChange ==
    /\ [][\A row \in Indices, col \in Indices, value \in CellKeyInputs :
              ChangeCell(row, col, value) =>
                  /\ <<n, m, p>>' = <<n, m, p>>
                  /\ IF value = Empty \/ IsDigitString(value)
                     THEN /\ matrix'[row + 1][col + 1] = value
                          /\ Len(matrix') = Len(matrix)
                          /\ \A i \in 1..Len(matrix) :
                                /\ Len(matrix'[i]) = Len(matrix[i])
                                /\ \A j \in 1..Len(matrix[i]) :
                                      <<i, j>> # <<row + 1, col + 1>> =>
                                          matrix'[i][j] = matrix[i][j]
                          /\ <<row, col>> \notin CellKeys(validationErrors')
                          /\ CellErrorsBut(validationErrors', <<row, col>>)
                                = CellErrorsBut(validationErrors, <<row, col>>)
                          /\ ScalarErrors(validationErrors')
                                = ScalarErrors(validationErrors)
                     ELSE /\ matrix' = matrix
                          /\ validationErrors' = validationErrors
         ]_vars
    /\ [](\A i \in 1..Len(matrix) : \A j \in 1..Len(matrix[i]) :
             matrix[i][j] = Empty \/ IsDigitString(matrix[i][j]))

\* A change of cell (0, 0) has just stored '01' and removed that cell's
\* error, while the error of cell (0, 1) and the error of P remain.
C20_Witness ==
    /\ event = "changeCell"
    /\ Len(matrix) = 1 /\ Len(matrix[1]) = 2
    /\ matrix[1][1] = <<"0", "1">>
    /\ CellKeys(validationErrors) = {<<0, 1>>}
    /\ Has(validationErrors, "p")

\* C21 as claimed (SpecSearch): searchResult and searchError are never
\* both set.
C21_SearchExclusive == ~(searchResult # Null /\ searchError # Null)

\* C22 (SpecSolve): result and error are never both set, and while a solve
\* request is pending (loading true) both are unset.
C22_SolveExclusive ==
    /\ ~(result # Null /\ error # Null)
    /\ loading => (result = Null /\ error = Null)
    /\ SolvePending => loading

\* A cell was edited while a request is pending, its response received and
\* the body being read: loading, nothing stored.
C22_Witness ==
    /\ event = "changeCell"
    /\ loading
    /\ solveRequests = <<>>
    /\ Len(solveReading) = 1
    /\ result = Null
    /\ error = Null

\* C23 as claimed (SpecForm): every row-col key held in the matrix part of
\* the validation errors names a cell inside the current N x M bounds.
C23_CellErrorsInBounds == CellKeys(validationErrors) \subseteq GridCells

\* C24 (SpecForm): while N or M is empty the matrix buffer is empty, and a
\* step that takes N and M from there to positive values leaves a grid in
\* which every cell is empty.
C24_EmptiedNotRestored ==
    /\ []((n = Empty \/ m = Empty) => matrix = <<>>)
    /\ [][((n = Empty \/ m = Empty)
             /\ GreaterThanZero(n') /\ GreaterThanZero(m')) =>
               /\ Len(matrix') = DecimalValue(n')
               /\ \A i \in 1..Len(matrix') :
                     matrix'[i] = [j \in 1..DecimalValue(m') |-> Empty]
         ]_vars

\* A change of N has just emptied it: the buffer is empty, and the range
\* error of cell (0, 0) shows that the grid held an entered value.
C24_Witness ==
    /\ event = "changeN"
    /\ n = Empty
    /\ m # Empty
    /\ matrix = <<>>
    /\ <<0, 0>> \in CellKeys(validationErrors)
    /\ validationErrors["matrix"][<<0, 0>>] = RangeMsg(1)

=============================================================================
